---- MODULE Spec2Model ----
(***************************************************************************)
(* A model of mobile_assistant.py: the wake-word loop (main_loop), the     *)
(* intent dispatcher (handle_command), the reminder scheduler              *)
(* (schedule_reminder and its worker threads) and the voice output (tts).  *)
(*                                                                         *)
(* Text is modelled as TLA+ strings, character by character: the string    *)
(* methods the program uses (lower, strip, in, startswith, split, replace, *)
(* isdigit, int) are operators that compute what the Python methods        *)
(* compute.  Whitespace is the space character: the recognizers' results   *)
(* drawn below contain no other whitespace.                                *)
(*                                                                         *)
(* A datetime is the number of seconds since 00:00:00 of the day the       *)
(* assistant is started (day 0).                                           *)
(***************************************************************************)
EXTENDS Integers, Sequences, FiniteSets, TLC

(***************************************************************************)
(* Python string methods                                                   *)
(***************************************************************************)
None == "<None>"

UpperLetters == "ABCDEFGHIJKLMNOPQRSTUVWXYZ"

LowerLetters == "abcdefghijklmnopqrstuvwxyz"

DigitChars == "0123456789"

Char(s, i) == SubSeq(s, i, i)

IndexIn(alphabet, c) ==
    IF \E i \in 1..Len(alphabet) : Char(alphabet, i) = c
    THEN CHOOSE i \in 1..Len(alphabet) : Char(alphabet, i) = c
    ELSE 0

\* the lower-case letter of each upper-case letter
LowerTable ==
    [c \in {Char(UpperLetters, i) : i \in 1..Len(UpperLetters)} |->
        Char(LowerLetters, IndexIn(UpperLetters, c))]

LowerChar(c) == IF c \in DOMAIN LowerTable THEN LowerTable[c] ELSE c

Lower(s) ==
    LET low[i \in 0..Len(s)] == IF i = 0 THEN "" ELSE low[i - 1] \o LowerChar(Char(s, i))
    IN  low[Len(s)]

\* Python's s.strip()
Strip(s) ==
    IF \A i \in 1..Len(s) : Char(s, i) = " "
    THEN ""
    ELSE SubSeq(s,
                CHOOSE i \in 1..Len(s) :
                    Char(s, i) # " " /\ \A j \in 1..(i - 1) : Char(s, j) = " ",
                CHOOSE i \in 1..Len(s) :
                    Char(s, i) # " " /\ \A j \in (i + 1)..Len(s) : Char(s, j) = " ")

StartsWith(s, p) == Len(p) <= Len(s) /\ SubSeq(s, 1, Len(p)) = p

\* the places of s where sub occurs
Occurrences(sub, s) == {i \in 1..(Len(s) - Len(sub) + 1) : SubSeq(s, i, i + Len(sub) - 1) = sub}

\* Python's `sub in s`
Contains(sub, s) == Occurrences(sub, s) # {}

\* index of the first occurrence of sep in s at or after place p, 0 when
\* there is none
FindFrom(s, sep, p) ==
    LET at == {i \in Occurrences(sep, s) : i >= p}
    IN  IF at = {} THEN 0 ELSE CHOOSE i \in at : \A j \in at : i <= j

\* Python's s.split(sep, maxsplit) with an explicit separator
Split(s, sep, maxsplit) ==
    LET from[p \in 1..(Len(s) + 1), m \in 0..maxsplit] ==
            IF m = 0 \/ FindFrom(s, sep, p) = 0
            THEN <<SubSeq(s, p, Len(s))>>
            ELSE <<SubSeq(s, p, FindFrom(s, sep, p) - 1)>>
                 \o from[FindFrom(s, sep, p) + Len(sep), m - 1]
    IN  from[1, maxsplit]

SplitAll(s, sep) == Split(s, sep, Len(s))

\* Python's sep.join(parts)
Join(parts, sep) ==
    LET upto[k \in 0..Len(parts)] ==
            IF k = 0 THEN ""
            ELSE IF k = 1 THEN parts[1]
            ELSE upto[k - 1] \o sep \o parts[k]
    IN  upto[Len(parts)]

\* Python's s.replace(old, new), old non-empty
Replace(s, old, new) ==
    LET from[p \in 1..(Len(s) + 1)] ==
            IF FindFrom(s, old, p) = 0
            THEN SubSeq(s, p, Len(s))
            ELSE SubSeq(s, p, FindFrom(s, old, p) - 1) \o new
                 \o from[FindFrom(s, old, p) + Len(old)]
    IN  from[1]

IsDigit(c) == IndexIn(DigitChars, c) > 0

\* ''.join(ch for ch in s if ch.isdigit())
DigitsOf(s) ==
    LET upto[i \in 0..Len(s)] ==
            IF i = 0 THEN ""
            ELSE upto[i - 1] \o (IF IsDigit(Char(s, i)) THEN Char(s, i) ELSE "")
    IN  upto[Len(s)]

\* the number a string of decimal digits denotes
DigitsValue(s) ==
    LET upto[i \in 0..Len(s)] ==
            IF i = 0 THEN 0
            ELSE 10 * upto[i - 1] + (IndexIn(DigitChars, Char(s, i)) - 1)
    IN  upto[Len(s)]

Unsigned(s) == IF s # "" /\ Char(s, 1) \in {"+", "-"} THEN SubSeq(s, 2, Len(s)) ELSE s

\* int(s) raises ValueError unless s is, inside surrounding whitespace, an
\* optional sign followed by decimal digits
IntRaises(s) ==
    \/ Unsigned(Strip(s)) = ""
    \/ \E i \in 1..Len(Unsigned(Strip(s))) : ~IsDigit(Char(Unsigned(Strip(s)), i))

IntOf(s) ==
    IF StartsWith(Strip(s), "-")
    THEN 0 - DigitsValue(Unsigned(Strip(s)))
    ELSE DigitsValue(Unsigned(Strip(s)))

(***************************************************************************)
(* datetime                                                                *)
(***************************************************************************)
SecondsPerMinute == 60

SecondsPerHour == 60 * SecondsPerMinute

SecondsPerDay == 24 * SecondsPerHour

HMS(h, m, s) == h * SecondsPerHour + m * SecondsPerMinute + s

DayOf(t) == t \div SecondsPerDay

HourOf(t) == (t % SecondsPerDay) \div SecondsPerHour

MinuteOf(t) == (t % SecondsPerHour) \div SecondsPerMinute

SecondOf(t) == t % SecondsPerMinute

TwoDigits(n) == Char(DigitChars, (n \div 10) + 1) \o Char(DigitChars, (n % 10) + 1)

\* day 0 is taken to be 1 January 2024
IsoDate(t) == "2024-01-" \o TwoDigits(DayOf(t) + 1)

\* datetime.isoformat() with microsecond = 0
IsoFormat(t) ==
    IsoDate(t) \o "T" \o TwoDigits(HourOf(t)) \o ":" \o TwoDigits(MinuteOf(t))
    \o ":" \o TwoDigits(SecondOf(t))

\* strftime("%I:%M %p")
Clock12(t) ==
    TwoDigits(IF HourOf(t) % 12 = 0 THEN 12 ELSE HourOf(t) % 12) \o ":"
    \o TwoDigits(MinuteOf(t)) \o (IF HourOf(t) < 12 THEN " AM" ELSE " PM")

\* strftime("note_%Y%m%d_%H%M%S.txt")
NoteStamp(t) ==
    "note_202401" \o TwoDigits(DayOf(t) + 1) \o "_" \o TwoDigits(HourOf(t))
    \o TwoDigits(MinuteOf(t)) \o TwoDigits(SecondOf(t)) \o ".txt"

\* a replace that accepts any hour and minute
ReplaceNeverRaises(hh, mm) == FALSE

\* datetime.replace(hour=hh, minute=mm, second=0, microsecond=0) raises
\* ValueError for an hour outside 0..23 or a minute outside 0..59
ReplaceRaises(hh, mm) == hh \notin 0..23 \/ mm \notin 0..59

ReplaceHM(t, hh, mm) == DayOf(t) * SecondsPerDay + HMS(hh, mm, 0)

\* the module imports the name datetime only; timedelta is bound nowhere, so
\* evaluating timedelta(...) raises NameError
timedelta_imported == FALSE

(***************************************************************************)
(* Configuration                                                           *)
(***************************************************************************)
\* a list of wake words without the bare name
WAKE_WORDS_Prefixed == <<"hey jarvis", "ok jarvis">>

WAKE_WORDS == <<"hey jarvis", "ok jarvis", "jarvis">>

NOTES_DIR == "~/assistant_notes"

\* any(ww in spoken for ww in WAKE_WORDS)
HasWakeWord(s) == \E i \in 1..Len(WAKE_WORDS) : Contains(WAKE_WORDS[i], s)

(***************************************************************************)
(* handle_command: the pure parts                                          *)
(***************************************************************************)
\* a stop test that knows the word "stop" only
HasStopWordStopOnly(txt) == Contains("stop", txt)

\* any(ww in txt for ww in ("exit", "quit", "stop", "bye"))
HasStopWord(txt) ==
    \E ww \in {"exit", "quit", "stop", "bye"} : Contains(ww, txt)

\* The number of the branch of handle_command that txt takes: the if
\* statements in the order the code tests them, each branch ending in a
\* return (or sys.exit), the code after the last one being branch 11.
Rule(txt) ==
    IF HasStopWord(txt) THEN 1
    ELSE IF Contains("time", txt) THEN 2
    ELSE IF Contains("date", txt) THEN 3
    ELSE IF StartsWith(txt, "search ") \/ StartsWith(txt, "google ") THEN 4
    ELSE IF StartsWith(txt, "open ") \/ StartsWith(txt, "launch ") THEN 5
    ELSE IF StartsWith(txt, "note ") \/ Contains("take note", txt) THEN 6
    ELSE IF Contains("remind me", txt) THEN 7
    ELSE IF StartsWith(txt, "call ") THEN 8
    ELSE IF StartsWith(txt, "send sms to ") \/ StartsWith(txt, "send message to ") THEN 9
    ELSE IF \/ Contains("wikipedia", txt)
            \/ StartsWith(txt, "who is ")
            \/ StartsWith(txt, "what is ") THEN 10
    ELSE 11

\* txt.split(" ", 1)[1]
AfterFirstSpace(txt) == Split(txt, " ", 1)[2]

SearchUrl(q) == "https://www.google.com/search?q=" \o Replace(q, " ", "+")

\* the query of the wikipedia branch
WikiQuery(txt) ==
    LET query == Strip(Replace(txt, "wikipedia", ""))
    IN  IF StartsWith(query, "who is ") \/ StartsWith(query, "what is ")
        THEN LET parts == SplitAll(query, " ")
             IN  Join(SubSeq(parts, 3, Len(parts)), " ")
        ELSE query

WikiUrl(query) == "https://en.wikipedia.org/wiki/" \o Replace(query, " ", "_")

NoTime == 0 - 1

\* when.startswith("in "): w is when[3:].strip()
ParseIn(w, now_) ==
    LET n == IF DigitsOf(w) = "" THEN 0 ELSE DigitsValue(DigitsOf(w))
    IN  IF Contains("minute", w)
        THEN IF timedelta_imported
             THEN [raised |-> FALSE, rem_time |-> now_ + n * SecondsPerMinute]
             ELSE [raised |-> TRUE, rem_time |-> NoTime]
        ELSE IF Contains("hour", w)
        THEN IF timedelta_imported
             THEN [raised |-> FALSE, rem_time |-> now_ + n * SecondsPerHour]
             ELSE [raised |-> TRUE, rem_time |-> NoTime]
        ELSE [raised |-> FALSE, rem_time |-> NoTime]

\* when.startswith("at "): hm is when.split(" ", 1)[1].split(":"), and
\* hh, mm = [int(x) for x in hm] raises unless hm has two numerals
ParseAt(hm, now_) ==
    IF Len(hm) # 2 \/ IntRaises(hm[1]) \/ IntRaises(hm[2])
    THEN [raised |-> TRUE, rem_time |-> NoTime]
    ELSE IF ReplaceRaises(IntOf(hm[1]), IntOf(hm[2]))
    THEN [raised |-> TRUE, rem_time |-> NoTime]
    ELSE IF ReplaceHM(now_, IntOf(hm[1]), IntOf(hm[2])) < now_
    THEN IF timedelta_imported
         THEN [raised |-> FALSE,
               rem_time |-> ReplaceHM(now_, IntOf(hm[1]), IntOf(hm[2])) + SecondsPerDay]
         ELSE [raised |-> TRUE, rem_time |-> NoTime]
    ELSE [raised |-> FALSE, rem_time |-> ReplaceHM(now_, IntOf(hm[1]), IntOf(hm[2]))]

\* The try block of the "remind me" branch: the value rem_time has after it
\* (NoTime for None) and whether the except clause ran.
ParseWhen(when, now_) ==
    IF StartsWith(when, "in ")
    THEN CHOOSE r \in {ParseIn(w, now_) : w \in {Strip(SubSeq(when, 4, Len(when)))}} : TRUE
    ELSE IF StartsWith(when, "at ")
    THEN CHOOSE r \in {ParseAt(hm, now_) :
                           hm \in {SplitAll(tstr, ":") : tstr \in {AfterFirstSpace(when)}}} : TRUE
    ELSE [raised |-> FALSE, rem_time |-> NoTime]

(***************************************************************************)
(* Bounds and the inputs drawn from the environment                        *)
(***************************************************************************)
\* reminders scheduled in one run (REMINDERS itself is unbounded)
MaxReminders == 2

\* the instants the clock is observed at
Instants == {HMS(18, 29, 30), HMS(18, 30, 0), HMS(18, 30, 25)}

\* what the recognizer yields for the passive listen of main_loop
\* (None: timeout, nothing understood, or a backend error)
PhraseInputs ==
    {None, "Jarvis stop", "Assistant stop", "assistant", "assistant open example.com",
     "turn on the lights"}

\* what the recognizer yields for the command listen
CommandInputs ==
    {None, "Stop the time", "goodbye", "update the time", "what is the date",
     "call me at lunchtime", "search wikipedia", "open http://x.org", "launch camera app",
     "note Buy Milk", "take note", "please remind me", "call 12345", "send sms to 555",
     "wikipedia alan turing", "who is alan turing", "play some music"}

NoteInputs == {None, "buy milk"}

WhenInputs ==
    {None, "in 10 minutes", "in 1 hour", "in a few minutes", "in a while", "at 18:30",
     "at 9:05", "at 25:00", "at noon", "at 18:30 to call mom", "tomorrow"}

MessageInputs == {"Call Mom"}

SmsInputs == {None, "running late"}

\* the capability flags and optional imports, computed once at start-up:
\* an Android device with the Termux API, a desktop with pyttsx3 and
\* SpeechRecognition, a desktop with SpeechRecognition and wikipedia only
Configs ==
    {[tts |-> TRUE, stt |-> TRUE, open |-> TRUE, sms |-> TRUE, call |-> TRUE,
      engine |-> FALSE, sr |-> FALSE, wikipedia |-> TRUE],
     [tts |-> FALSE, stt |-> FALSE, open |-> FALSE, sms |-> FALSE, call |-> FALSE,
      engine |-> TRUE, sr |-> TRUE, wikipedia |-> FALSE],
     [tts |-> FALSE, stt |-> FALSE, open |-> FALSE, sms |-> FALSE, call |-> FALSE,
      engine |-> FALSE, sr |-> TRUE, wikipedia |-> TRUE]}

(***************************************************************************)
(* State                                                                   *)
(***************************************************************************)
VARIABLES
    caps,       \* HAS_TERMUX_*, _engine, sr, wikipedia
    now,        \* the wall clock
    pc,         \* where the foreground thread is
    fgInTts,    \* the foreground thread is inside tts()
    spoken,     \* main_loop: spoken
    cmd,        \* main_loop: cmd, the text given to handle_command
    source,     \* where cmd came from: "listen" (second listen), "inline", "none"
    acked,      \* main_loop said "Yes? How can I help?" in this iteration
    fired,      \* the branch handle_command took (0: returned at `if not text`)
    listens,    \* listen_once calls made by this handle_command
    said,       \* the last tts call of the foreground thread
    effects,    \* external actions of this handle_command, in order
    pending,    \* what the foreground does after the tts call in progress
    when,       \* handle_command: when
    number,     \* handle_command: number
    REMINDERS,  \* the module's list of (datetime, message)
    timers,     \* the worker threads, timers[i] for REMINDERS[i]
    exited,     \* the process has ended
    exitCode,   \* its exit status
    exitCause   \* "stop" (sys.exit in handle_command), "interrupt" (KeyboardInterrupt)

loopVars == <<spoken, cmd, source, acked>>

dispVars == <<fired, listens, effects, pending, when, number>>

exitVars == <<exited, exitCode, exitCause>>

vars ==
    <<caps, now, pc, fgInTts, spoken, cmd, source, acked, fired, listens, said,
      effects, pending, when, number, REMINDERS, timers, exited, exitCode, exitCause>>

NoPending == [after |-> <<>>, exit |-> FALSE]

NothingSaid == [backend |-> "", text |-> ""]

(***************************************************************************)
(* tts, listen_once and the utility actions                                *)
(***************************************************************************)
\* tts(text): the backend that renders text (text is never None here)
tts(text) ==
    [backend |-> IF caps.tts THEN "termux-tts-speak"
                 ELSE IF caps.engine THEN "pyttsx3"
                 ELSE "print",
     text |-> text]

\* listen_once(): raw is what the recognizer understood, None when the
\* capture timed out, nothing was understood or the backend failed
listen_once(raw) ==
    IF caps.stt
    THEN IF raw = None \/ Strip(raw) = "" THEN None ELSE Lower(Strip(raw))
    ELSE IF ~caps.sr THEN None
    ELSE IF raw = None THEN None ELSE Lower(raw)

\* Python's `x or default` for a text x
OrElse(x, default) == IF x = None \/ x = "" THEN default ELSE x

Effect(op, arg, arg2) == [op |-> op, arg |-> arg, arg2 |-> arg2]

open_url(url) ==
    IF caps.open THEN Effect("termux-open-url", url, "") ELSE Effect("webbrowser.open", url, "")

open_file_or_uri(uri) ==
    IF caps.open THEN Effect("termux-open", uri, "") ELSE Effect("webbrowser.open", uri, "")

\* add_note(text): the file written
add_note(text) == Effect("write", NOTES_DIR \o "/" \o NoteStamp(now), text \o "\n")

\* send_sms / make_call: the subprocess run when the capability is present
send_sms(number_, message) ==
    IF caps.sms THEN <<Effect("termux-sms-send", number_, message)>> ELSE <<>>

make_call(number_) ==
    IF caps.call THEN <<Effect("termux-telephony-call", number_, "")>> ELSE <<>>

(***************************************************************************)
(* handle_command, from its entry to its first say_and_print.              *)
(*   say:    the text of that say_and_print                                *)
(*   before: the external actions made before it                           *)
(*   after:  the external actions made after it, before returning          *)
(*   exit:   sys.exit(0) follows it                                        *)
(*   next:   where the foreground thread is once tts is entered:           *)
(*           "done" (returns), "post" (after/exit first), or a listen_once *)
(* lookup is the outcome of wikipedia.summary: "ok" or "raise".            *)
(***************************************************************************)
Branch(say, next, before, after, exit, number_) ==
    [say |-> say, next |-> next, before |-> before, after |-> after, exit |-> exit,
     number |-> number_]

\* txt is text.lower().strip()
FirstSegment(txt, text, lookup) ==
    LET r == Rule(txt)
    IN  CASE r = 1 ->
                Branch("Goodbye! Stopping assistant.", "post", <<>>, <<>>, TRUE, "")
          [] r = 2 ->
                Branch("The time is " \o Clock12(now) \o ".", "done", <<>>, <<>>, FALSE, "")
          [] r = 3 ->
                Branch("Today's date is " \o IsoDate(now), "done", <<>>, <<>>, FALSE, "")
          [] r = 4 ->
                Branch("Searching the web for " \o AfterFirstSpace(txt), "post", <<>>,
                       <<open_url(SearchUrl(AfterFirstSpace(txt)))>>, FALSE, "")
          [] r = 5 ->
                LET target == AfterFirstSpace(txt)
                IN  Branch("Opening " \o target, "post", <<>>,
                           IF StartsWith(target, "http") THEN <<open_url(target)>>
                           ELSE IF Contains(".", target) /\ ~Contains(" ", target)
                           THEN <<open_url("http://" \o target)>>
                           ELSE <<open_file_or_uri(target)>>,
                           FALSE, "")
          [] r = 6 ->
                IF StartsWith(txt, "note ")
                THEN LET note_text == AfterFirstSpace(text)
                     IN  IF note_text # ""
                         THEN Branch("Saved note to " \o add_note(note_text).arg, "done",
                                     <<add_note(note_text)>>, <<>>, FALSE, "")
                         ELSE Branch("No note recorded.", "done", <<>>, <<>>, FALSE, "")
                ELSE Branch("What would you like me to note?", "note_listen", <<>>, <<>>,
                            FALSE, "")
          [] r = 7 ->
                Branch("Okay, when should I remind you? (say in 10 minutes / at 18:30 / in 1 hour)",
                       "remind_when", <<>>, <<>>, FALSE, "")
          [] r = 8 ->
                LET number_ == Strip(AfterFirstSpace(txt))
                IN  Branch(IF make_call(number_) # <<>>
                           THEN "Calling " \o number_
                           ELSE "Call feature unavailable on this device.",
                           "done", make_call(number_), <<>>, FALSE, number_)
          [] r = 9 ->
                LET parts == Split(txt, " ", 3)
                IN  IF Len(parts) >= 4
                    THEN Branch("What is the message?", "sms_listen", <<>>, <<>>, FALSE,
                                parts[4])
                    ELSE Branch("Please say the command like: send sms to +91xxxxxxxxxx",
                                "done", <<>>, <<>>, FALSE, "")
          [] r = 10 ->
                LET query == WikiQuery(txt)
                IN  IF caps.wikipedia
                    THEN IF lookup = "ok"
                         THEN Branch("<summary of " \o query \o ">", "done",
                                     <<Effect("wikipedia.summary", query, "ok")>>, <<>>,
                                     FALSE, "")
                         ELSE Branch("Couldn't fetch Wikipedia summary: <error>", "done",
                                     <<Effect("wikipedia.summary", query, "raise")>>, <<>>,
                                     FALSE, "")
                    ELSE Branch("Wikipedia library not installed. Opening web search.",
                                "post", <<>>, <<open_url(WikiUrl(query))>>, FALSE, "")
          [] OTHER ->
                Branch("I didn't catch a specific command - searching the web for: " \o txt,
                       "post", <<>>, <<open_url(SearchUrl(txt))>>, FALSE, "")

\* handle_command(text) up to its first blocking point
handle_command(text, lookup) ==
    IF text = None \/ text = ""
    THEN /\ pc' = "done"
         /\ fired' = 0
         /\ UNCHANGED <<said, fgInTts, listens, effects, pending, when, number>>
    ELSE \E txt \in {Strip(Lower(text))} : \E b \in {FirstSegment(txt, text, lookup)} :
             /\ fired' = Rule(txt)
             /\ said' = tts(b.say)
             /\ fgInTts' = TRUE
             /\ effects' = b.before
             /\ pending' = [after |-> b.after, exit |-> b.exit]
             /\ number' = b.number
             /\ pc' = b.next
             /\ UNCHANGED <<listens, when>>

(***************************************************************************)
(* schedule_reminder                                                       *)
(***************************************************************************)
\* t.start(); REMINDERS.append((rem_time, message)): the caller goes on at
\* once, the worker thread runs on its own
NewTimer == [state |-> "started", wakeAt |-> NoTime, fired |-> 0, spoke |-> ""]

schedule_reminder(rem_time, message) ==
    /\ timers' = Append(timers, NewTimer)
    /\ REMINDERS' = Append(REMINDERS, [time |-> rem_time, message |-> message])

\* say_and_print("Reminder: " + message) entered by worker i
WorkerSpeaks(i) ==
    [timers EXCEPT ![i].state = "speaking",
                   ![i].fired = @ + 1,
                   ![i].spoke = tts("Reminder: " \o REMINDERS[i].message).text]

\* a wait computed the wrong way round
WorkerWaitReversed(i) == now - REMINDERS[i].time

\* worker: now = datetime.now(); wait = rem_time - now; if wait > 0 the
\* thread sleeps, otherwise it speaks at once
WorkerWait(i) == REMINDERS[i].time - now

WorkerStart(i) ==
    /\ ~exited
    /\ i \in 1..Len(timers)
    /\ timers[i].state = "started"
    /\ timers' = IF WorkerWait(i) > 0
                 THEN [timers EXCEPT ![i].state = "sleeping", ![i].wakeAt = now + WorkerWait(i)]
                 ELSE WorkerSpeaks(i)
    /\ UNCHANGED <<caps, now, pc, fgInTts, loopVars, dispVars, said, REMINDERS, exitVars>>

\* time.sleep(wait) returns once wait seconds have passed
WorkerWake(i) ==
    /\ ~exited
    /\ i \in 1..Len(timers)
    /\ timers[i].state = "sleeping"
    /\ now >= timers[i].wakeAt
    /\ timers' = WorkerSpeaks(i)
    /\ UNCHANGED <<caps, now, pc, fgInTts, loopVars, dispVars, said, REMINDERS, exitVars>>

\* say_and_print returns in the worker, or raises: an exception ends the
\* worker thread and no other
WorkerTtsReturn(i, outcome) ==
    /\ ~exited
    /\ i \in 1..Len(timers)
    /\ timers[i].state = "speaking"
    /\ timers' = [timers EXCEPT ![i].state = IF outcome = "ok" THEN "done" ELSE "failed"]
    /\ UNCHANGED <<caps, now, pc, fgInTts, loopVars, dispVars, said, REMINDERS, exitVars>>

\* time passes
Tick ==
    /\ ~exited
    /\ \E t \in Instants : t > now /\ now' = t
    /\ UNCHANGED <<caps, pc, fgInTts, loopVars, dispVars, said, REMINDERS, timers, exitVars>>

(***************************************************************************)
(* The foreground thread: main_loop and handle_command                     *)
(***************************************************************************)
Init ==
    /\ caps \in Configs
    /\ now = HMS(18, 29, 30)
    /\ pc = "start"
    /\ fgInTts = FALSE
    /\ spoken = None
    /\ cmd = None
    /\ source = "none"
    /\ acked = FALSE
    /\ fired = 0
    /\ listens = 0
    /\ said = NothingSaid
    /\ effects = <<>>
    /\ pending = NoPending
    /\ when = ""
    /\ number = ""
    /\ REMINDERS = <<>>
    /\ timers = <<>>
    /\ exited = FALSE
    /\ exitCode = 0
    /\ exitCause = "none"

Running == ~exited /\ ~fgInTts

\* tts returns in the foreground thread
TtsReturn ==
    /\ ~exited
    /\ fgInTts
    /\ fgInTts' = FALSE
    /\ UNCHANGED <<caps, now, pc, loopVars, dispVars, said, REMINDERS, timers, exitVars>>

\* main_loop: say_and_print("Mobile assistant started. ...")
Start ==
    /\ Running
    /\ pc = "start"
    /\ said' = tts("Mobile assistant started. Say the wake word: " \o WAKE_WORDS[1])
    /\ fgInTts' = TRUE
    /\ pc' = "idle"
    /\ UNCHANGED <<caps, now, loopVars, dispVars, REMINDERS, timers, exitVars>>

\* main_loop: spoken = listen_once(...) and what the loop body does with it,
\* up to the next blocking point
IdleListen(raw, lookup) ==
    /\ Running
    /\ pc = "idle"
    /\ \E heard \in {listen_once(raw)} : \E sp \in {Lower(heard)} :
           IF heard = None \/ heard = ""
           THEN \* continue
                UNCHANGED <<pc, fgInTts, loopVars, dispVars, said>>
           ELSE IF HasWakeWord(sp)
           THEN /\ spoken' = sp
                /\ said' = tts("Yes? How can I help?")
                /\ fgInTts' = TRUE
                /\ acked' = TRUE
                /\ pc' = "engaged"
                /\ UNCHANGED <<cmd, source, dispVars>>
           ELSE IF StartsWith(sp, "assistant") \/ StartsWith(sp, "jarvis")
           THEN /\ spoken' = sp
                /\ source' = "inline"
                /\ UNCHANGED acked
                /\ \E rest \in {IF Contains(" ", sp) THEN AfterFirstSpace(sp) ELSE None} :
                       /\ cmd' = rest
                       /\ handle_command(rest, lookup)
           ELSE \* ignored
                /\ spoken' = sp
                /\ pc' = "done"
                /\ UNCHANGED <<cmd, source, acked, fgInTts, dispVars, said>>
    /\ UNCHANGED <<caps, now, REMINDERS, timers, exitVars>>

\* main_loop: cmd = listen_once(...); handle_command(cmd)
EngagedListen(raw, lookup) ==
    /\ Running
    /\ pc = "engaged"
    /\ \E heard \in {listen_once(raw)} :
           /\ cmd' = heard
           /\ handle_command(heard, lookup)
    /\ source' = "listen"
    /\ UNCHANGED <<caps, now, spoken, acked, REMINDERS, timers, exitVars>>

\* handle_command, note branch: note_text = listen_once() or "" and the rest
NoteListen(raw) ==
    /\ Running
    /\ pc = "note_listen"
    /\ listens' = listens + 1
    /\ \E note_text \in {OrElse(listen_once(raw), "")} :
           IF note_text # ""
           THEN /\ effects' = Append(effects, add_note(note_text))
                /\ said' = tts("Saved note to " \o add_note(note_text).arg)
           ELSE /\ effects' = effects
                /\ said' = tts("No note recorded.")
    /\ fgInTts' = TRUE
    /\ pc' = "done"
    /\ UNCHANGED <<caps, now, loopVars, fired, pending, when, number, REMINDERS, timers,
                   exitVars>>

\* the answers to "when" that schedule nothing at any instant
NeverSchedules(raw) ==
    \A t \in Instants : ParseWhen(OrElse(listen_once(raw), ""), t).rem_time = NoTime

\* handle_command, remind branch: when = listen_once() or "";
\* say_and_print("What is the reminder message?")
RemindWhen(raw) ==
    /\ Running
    /\ pc = "remind_when"
    /\ Len(REMINDERS) < MaxReminders \/ NeverSchedules(raw)
    /\ listens' = listens + 1
    /\ when' = OrElse(listen_once(raw), "")
    /\ said' = tts("What is the reminder message?")
    /\ fgInTts' = TRUE
    /\ pc' = "remind_msg"
    /\ UNCHANGED <<caps, now, loopVars, fired, effects, pending, number, REMINDERS, timers,
                   exitVars>>

\* handle_command, remind branch: message = listen_once() or "Reminder", the
\* parse of when, and schedule_reminder or the failure notice
RemindMsg(raw) ==
    /\ Running
    /\ pc = "remind_msg"
    /\ listens' = listens + 1
    /\ \E message \in {OrElse(listen_once(raw), "Reminder")}, parsed \in {ParseWhen(when, now)} :
           /\ effects' = IF parsed.raised
                         THEN Append(effects, Effect("print", "Reminder parse error:", ""))
                         ELSE effects
           /\ IF parsed.rem_time # NoTime
              THEN /\ schedule_reminder(parsed.rem_time, message)
                   /\ said' = tts("Reminder set for " \o IsoFormat(parsed.rem_time))
              ELSE /\ UNCHANGED <<REMINDERS, timers>>
                   /\ said' = tts("Couldn't parse time. Reminder not set.")
    /\ fgInTts' = TRUE
    /\ pc' = "done"
    /\ UNCHANGED <<caps, now, loopVars, fired, pending, when, number, exitVars>>

\* an sms branch that listens a second time, for a confirmation, before it
\* sends
SmsListenConfirm(raw) ==
    /\ Running
    /\ pc = "sms_listen"
    /\ listens' = listens + 2
    /\ \E message \in {OrElse(listen_once(raw), "")} :
           IF message # "" /\ send_sms(number, message) # <<>>
           THEN /\ effects' = effects \o send_sms(number, message)
                /\ said' = tts("Message sent.")
           ELSE /\ effects' = effects
                /\ said' = tts("Unable to send message.")
    /\ fgInTts' = TRUE
    /\ pc' = "done"
    /\ UNCHANGED <<caps, now, loopVars, fired, pending, when, number, REMINDERS, timers,
                   exitVars>>

\* handle_command, sms branch: message = listen_once() or "" and the rest
SmsListen(raw) ==
    /\ Running
    /\ pc = "sms_listen"
    /\ listens' = listens + 1
    /\ \E message \in {OrElse(listen_once(raw), "")} :
           IF message # "" /\ send_sms(number, message) # <<>>
           THEN /\ effects' = effects \o send_sms(number, message)
                /\ said' = tts("Message sent.")
           ELSE /\ effects' = effects
                /\ said' = tts("Unable to send message.")
    /\ fgInTts' = TRUE
    /\ pc' = "done"
    /\ UNCHANGED <<caps, now, loopVars, fired, pending, when, number, REMINDERS, timers,
                   exitVars>>

\* what follows a say_and_print before handle_command returns: open_url /
\* open_file_or_uri, or sys.exit(0) (in handle_command or in the
\* KeyboardInterrupt handler)
PostSay ==
    /\ Running
    /\ pc = "post"
    /\ effects' = effects \o pending.after
    /\ pending' = NoPending
    /\ IF pending.exit
       THEN /\ exited' = TRUE
            /\ exitCode' = 0
            /\ exitCause' = IF exitCause = "interrupt" THEN "interrupt" ELSE "stop"
            /\ pc' = "exited"
       ELSE /\ pc' = "done"
            /\ UNCHANGED exitVars
    /\ UNCHANGED <<caps, now, fgInTts, loopVars, fired, listens, said, when, number,
                   REMINDERS, timers>>

\* a loop that is left when handle_command returns
LoopReturn ==
    /\ Running
    /\ pc = "done"
    /\ pc' = "exited"
    /\ exited' = TRUE
    /\ UNCHANGED <<caps, now, fgInTts, loopVars, dispVars, said, REMINDERS, timers,
                   exitCode, exitCause>>

\* handle_command has returned: the while loop starts its next iteration
LoopBack ==
    /\ Running
    /\ pc = "done"
    /\ pc' = "idle"
    /\ spoken' = None
    /\ cmd' = None
    /\ source' = "none"
    /\ acked' = FALSE
    /\ fired' = 0
    /\ listens' = 0
    /\ effects' = <<>>
    /\ pending' = NoPending
    /\ when' = ""
    /\ number' = ""
    /\ said' = NothingSaid
    /\ UNCHANGED <<caps, now, fgInTts, REMINDERS, timers, exitVars>>

\* KeyboardInterrupt in the main thread, wherever it is: the handler of
\* __main__ says "Assistant stopped by user." and calls sys.exit(0).  One
\* interrupt is modelled.
Interrupt ==
    /\ ~exited
    /\ exitCause # "interrupt"
    /\ exitCause' = "interrupt"
    /\ said' = tts("Assistant stopped by user.")
    /\ fgInTts' = TRUE
    /\ pc' = "post"
    /\ pending' = [after |-> <<>>, exit |-> TRUE]
    /\ spoken' = None
    /\ cmd' = None
    /\ source' = "none"
    /\ acked' = FALSE
    /\ fired' = 0
    /\ listens' = 0
    /\ effects' = <<>>
    /\ when' = ""
    /\ number' = ""
    /\ UNCHANGED <<caps, now, REMINDERS, timers, exited, exitCode>>

Lookups == {"ok", "raise"}

Next ==
    \/ Start
    \/ TtsReturn
    \/ \E raw \in PhraseInputs, lookup \in Lookups : IdleListen(raw, lookup)
    \/ \E raw \in CommandInputs, lookup \in Lookups : EngagedListen(raw, lookup)
    \/ \E raw \in NoteInputs : NoteListen(raw)
    \/ \E raw \in WhenInputs : RemindWhen(raw)
    \/ \E raw \in MessageInputs : RemindMsg(raw)
    \/ \E raw \in SmsInputs : SmsListen(raw)
    \/ PostSay
    \/ LoopBack
    \/ Interrupt
    \/ Tick
    \/ \E i \in 1..MaxReminders : WorkerStart(i)
    \/ \E i \in 1..MaxReminders : WorkerWake(i)
    \/ \E i \in 1..MaxReminders, outcome \in {"ok", "raise"} : WorkerTtsReturn(i, outcome)

Spec == Init /\ [][Next]_vars

\* one step of the foreground thread other than the passive listen; at most
\* one of these is enabled in any state
FgProgress ==
    \/ Start
    \/ TtsReturn
    \/ \E raw \in CommandInputs, lookup \in Lookups : EngagedListen(raw, lookup)
    \/ \E raw \in NoteInputs : NoteListen(raw)
    \/ \E raw \in WhenInputs : RemindWhen(raw)
    \/ \E raw \in MessageInputs : RemindMsg(raw)
    \/ \E raw \in SmsInputs : SmsListen(raw)
    \/ PostSay
    \/ LoopBack

\* one step of worker thread i
Worker(i) ==
    \/ WorkerStart(i)
    \/ WorkerWake(i)
    \/ \E outcome \in {"ok", "raise"} : WorkerTtsReturn(i, outcome)

\* The worker threads are scheduled and the clock advances; nothing is
\* assumed of the foreground thread.
TimerSpec ==
    /\ Spec
    /\ WF_vars(Tick)
    /\ \A i \in 1..MaxReminders : WF_vars(Worker(i))

\* Every thread is scheduled: a thread that can run runs, and a call that
\* returns within a bound (tts, listen_once with its timeouts) returns.
\* Nothing obliges the user to speak to the idle loop or to interrupt.
FairSpec ==
    /\ TimerSpec
    /\ WF_vars(FgProgress)

(***************************************************************************)
(* C1: rule priority of handle_command                                     *)
(***************************************************************************)
\* the trigger column of the dispatch table, rows 1 to 10
TableTrigger(k, txt) ==
    CASE k = 1 -> \E w \in {"exit", "quit", "stop", "bye"} : Contains(w, txt)
      [] k = 2 -> Contains("time", txt)
      [] k = 3 -> Contains("date", txt)
      [] k = 4 -> StartsWith(txt, "search ") \/ StartsWith(txt, "google ")
      [] k = 5 -> StartsWith(txt, "open ") \/ StartsWith(txt, "launch ")
      [] k = 6 -> StartsWith(txt, "note ") \/ Contains("take note", txt)
      [] k = 7 -> Contains("remind me", txt)
      [] k = 8 -> StartsWith(txt, "call ")
      [] k = 9 -> StartsWith(txt, "send sms to ") \/ StartsWith(txt, "send message to ")
      [] k = 10 -> \/ Contains("wikipedia", txt)
                   \/ StartsWith(txt, "who is ")
                   \/ StartsWith(txt, "what is ")

\* the lowest-numbered row whose trigger matches, 11 when none does
TableRule(txt) ==
    IF \E k \in 1..10 : TableTrigger(k, txt)
    THEN CHOOSE k \in 1..10 : TableTrigger(k, txt) /\ \A j \in 1..(k - 1) : ~TableTrigger(j, txt)
    ELSE 11

\* what each row says first
FirstWords(k) ==
    CASE k = 1 -> {"Goodbye! Stopping assistant."}
      [] k = 2 -> {"The time is "}
      [] k = 3 -> {"Today's date is "}
      [] k = 4 -> {"Searching the web for "}
      [] k = 5 -> {"Opening "}
      [] k = 6 -> {"Saved note to ", "No note recorded.", "What would you like me to note?"}
      [] k = 7 -> {"Okay, when should I remind you?"}
      [] k = 8 -> {"Calling ", "Call feature unavailable on this device."}
      [] k = 9 -> {"What is the message?", "Please say the command like: "}
      [] k = 10 -> {"<summary of ", "Couldn't fetch Wikipedia summary: ",
                    "Wikipedia library not installed. Opening web search."}
      [] k = 11 -> {"I didn't catch a specific command"}

\* C1: whenever handle_command has been given a non-empty text, the branch
\* it took is the lowest-numbered row of the table whose trigger matches the
\* lowercased, stripped text (row 11 when none matches); what it said first
\* is that row's; a text with a stop word takes row 1 whatever else it
\* contains; and row 1, and no other row, says the farewell and ends the
\* process.
C1_RulePriority ==
    /\ (cmd # None /\ cmd # "") <=> fired # 0
    /\ fired # 0 =>
          \E txt \in {Strip(Lower(cmd))} :
              /\ fired = TableRule(txt)
              /\ TableTrigger(1, txt) => fired = 1
              /\ listens = 0 => \E w \in FirstWords(fired) : StartsWith(said.text, w)
              /\ fired = 1 => said.text = "Goodbye! Stopping assistant."
                                /\ (pending.exit \/ (exited /\ exitCause = "stop"))
              /\ fired # 1 => ~pending.exit /\ ~exited

\* a command with both "stop" and "time" ended the process through row 1
C1_Witness ==
    /\ exited
    /\ exitCause = "stop"
    /\ fired = 1
    /\ Contains("stop", cmd)
    /\ Contains("time", cmd)

(***************************************************************************)
(* C2, C3, C4: the "when" answer of the reminder dialogue                  *)
(***************************************************************************)
AllDigits(x) == x # "" /\ \A i \in 1..Len(x) : IsDigit(Char(x, i))

\* w is "in <N> <unit>" or "in <N> <unit>s", N a digit string
InForm(w, unit) ==
    /\ StartsWith(w, "in ")
    /\ \E parts \in {SplitAll(Strip(SubSeq(w, 4, Len(w))), " ")} :
           /\ Len(parts) = 2
           /\ AllDigits(parts[1])
           /\ parts[2] \in {unit, unit \o "s"}

\* the N of "in <N> <unit>"
InCount(w) == DigitsValue(SplitAll(Strip(SubSeq(w, 4, Len(w))), " ")[1])

\* w is "at HH:MM" with a valid hour and minute
AtForm(w) ==
    /\ StartsWith(w, "at ")
    /\ \E hm \in {SplitAll(SubSeq(w, 4, Len(w)), ":")} :
           /\ Len(hm) = 2
           /\ AllDigits(hm[1]) /\ DigitsValue(hm[1]) \in 0..23
           /\ AllDigits(hm[2]) /\ DigitsValue(hm[2]) \in 0..59

\* today at the HH:MM of w, second 0
AtToday(w, t) ==
    LET hm == SplitAll(SubSeq(w, 4, Len(w)), ":")
    IN  DayOf(t) * SecondsPerDay + DigitsValue(hm[1]) * SecondsPerHour
        + DigitsValue(hm[2]) * SecondsPerMinute

\* the step in which handle_command, in the reminder dialogue, has its two
\* answers and acts on them
RemindOutcome == pc = "remind_msg" /\ pc' = "done"

\* that step schedules exactly one reminder for instant t and announces it
SchedulesAt(t) ==
    /\ Len(REMINDERS') = Len(REMINDERS) + 1
    /\ SubSeq(REMINDERS', 1, Len(REMINDERS)) = REMINDERS
    /\ REMINDERS'[Len(REMINDERS')].time = t
    /\ Len(timers') = Len(timers) + 1
    /\ said'.text = "Reminder set for " \o IsoFormat(t)

\* that step schedules nothing and says so
SchedulesNothing ==
    /\ REMINDERS' = REMINDERS
    /\ timers' = timers
    /\ said'.text = "Couldn't parse time. Reminder not set."

\* C2: an answer "in <N> minute(s)" (resp. "in <N> hour(s)") schedules
\* exactly one reminder at now plus N minutes (resp. hours), appended to
\* REMINDERS, and announces it.
C2_InSchedules ==
    [][/\ RemindOutcome /\ InForm(when, "minute") => SchedulesAt(now + InCount(when) * 60)
       /\ RemindOutcome /\ InForm(when, "hour") => SchedulesAt(now + InCount(when) * 3600)]_vars

\* the answer "in 10 minutes" was given, nothing was scheduled and the user
\* was told the time could not be parsed
C2_NotScheduled ==
    /\ pc = "done"
    /\ fired = 7
    /\ listens = 2
    /\ when = "in 10 minutes"
    /\ said.text = "Couldn't parse time. Reminder not set."
    /\ effects = <<Effect("print", "Reminder parse error:", "")>>
    /\ REMINDERS = <<>>
    /\ timers = <<>>

\* C3: an answer "at HH:MM" with a valid hour and minute schedules one
\* reminder, today at HH:MM:00 if that is not before now and one day later
\* if it is.
C3_AtSchedules ==
    [][RemindOutcome /\ AtForm(when) =>
          SchedulesAt(IF AtToday(when, now) >= now
                      THEN AtToday(when, now)
                      ELSE AtToday(when, now) + SecondsPerDay)]_vars

\* the answer "at 9:05" was given in the evening, nothing was scheduled
C3_NotScheduled ==
    /\ pc = "done"
    /\ fired = 7
    /\ listens = 2
    /\ when = "at 9:05"
    /\ AtToday(when, now) < now
    /\ said.text = "Couldn't parse time. Reminder not set."
    /\ effects = <<Effect("print", "Reminder parse error:", "")>>
    /\ REMINDERS = <<>>
    /\ timers = <<>>

\* the answers the grammar does not accept: neither "in ..." with a unit and
\* a digit, nor "at HH:MM" with a valid hour and minute
Unparseable(w) ==
    /\ ~(/\ StartsWith(w, "in ")
          /\ (Contains("minute", w) \/ Contains("hour", w))
          /\ DigitsOf(w) # "")
    /\ ~AtForm(w)

\* C4: when the answer is any other phrasing, nothing recognized, a
\* malformed or non-numeric HH:MM, or an "in ..." phrase without digits,
\* the dialogue starts no timer thread, leaves REMINDERS unchanged, tells
\* the user the reminder was not set, and handle_command returns to the
\* loop, which goes on.
C4_NoReminder ==
    [][pc = "remind_msg" /\ pc' # pc /\ exitCause' # "interrupt" /\ Unparseable(when) =>
          /\ SchedulesNothing
          /\ pc' = "done"
          /\ ~exited'
          /\ ~pending'.exit]_vars

\* "at noon" was answered: the parse raised, nothing was scheduled, and the
\* loop is back in Idle
C4_Witness ==
    /\ pc = "done"
    /\ fired = 7
    /\ listens = 2
    /\ when = "at noon"
    /\ Unparseable(when)
    /\ said.text = "Couldn't parse time. Reminder not set."
    /\ REMINDERS = <<>>
    /\ timers = <<>>
    /\ ~exited

(***************************************************************************)
(* C5: the encyclopedia branch                                             *)
(***************************************************************************)
Opened == {k \in 1..Len(effects) : effects[k].op \in {"termux-open-url", "webbrowser.open"}}

LookedUp(outcome) ==
    \E k \in 1..Len(effects) : effects[k].op = "wikipedia.summary" /\ effects[k].arg2 = outcome

\* C5: once handle_command has returned from branch 10: if the lookup
\* succeeded the summary was spoken and nothing was opened; if the lookup
\* raised or the library is absent, the problem was reported and a web page
\* for the title was opened with open_url.
C5_Fallback ==
    pc = "done" /\ fired = 10 =>
        IF LookedUp("ok")
        THEN StartsWith(said.text, "<summary of ") /\ Opened = {}
        ELSE /\ \/ StartsWith(said.text, "Couldn't fetch Wikipedia summary")
                \/ StartsWith(said.text, "Wikipedia library not installed")
             /\ Opened # {}

\* the lookup for "who is alan turing" raised: the failure was spoken and
\* handle_command returned with nothing opened
C5_NoFallback ==
    /\ pc = "done"
    /\ fired = 10
    /\ cmd = "who is alan turing"
    /\ caps.wikipedia
    /\ effects = <<Effect("wikipedia.summary", "alan turing", "raise")>>
    /\ said.text = "Couldn't fetch Wikipedia summary: <error>"
    /\ ~fgInTts

(***************************************************************************)
(* C8: concurrent calls of tts                                             *)
(***************************************************************************)
Speaking == {i \in 1..Len(timers) : timers[i].state = "speaking"}

\* C8: at most one tts invocation is in progress at a time, over the
\* foreground thread and the timer threads.
C8_TtsSerialized == Cardinality(Speaking) + (IF fgInTts THEN 1 ELSE 0) <= 1

\* the foreground thread is inside tts("Reminder set for ...") while the
\* timer thread of that reminder is inside tts("Reminder: ...")
C8_Overlap ==
    /\ fgInTts
    /\ StartsWith(said.text, "Reminder set for ")
    /\ Len(timers) = 1
    /\ timers[1].state = "speaking"
    /\ timers[1].spoke = "Reminder: call mom"
    /\ said.backend = "pyttsx3"

(***************************************************************************)
(* C9: listen_once calls made by handle_command                            *)
(***************************************************************************)
\* C9 as stated: one handle_command makes at most one listen_once call, and
\* only in branches 6, 7 and 9.
C9_AtMostOneListen ==
    /\ listens <= 1
    /\ listens = 1 => fired \in {6, 7, 9}

\* C9: one handle_command makes no listen_once call outside branches 6, 7
\* and 9, at most one in branches 6 and 9, and two in branch 7: one before
\* it asks for the message and a second before it returns.
C9_ListenCounts ==
    /\ listens \in 0..2
    /\ fired \notin {6, 7, 9} => listens = 0
    /\ fired \in {6, 9} => listens <= 1
    /\ fired = 7 /\ pc = "remind_when" => listens = 0
    /\ fired = 7 /\ pc = "remind_msg" => listens = 1
    /\ fired = 7 /\ pc = "done" => listens = 2

\* the reminder dialogue has run to its end with two listen_once calls
C9_Witness ==
    /\ fired = 7
    /\ pc = "done"
    /\ listens = 2
    /\ cmd = "please remind me"

(***************************************************************************)
(* C10: wake word and direct address in main_loop                          *)
(***************************************************************************)
\* C10: a recognized phrase with "jarvis" anywhere in it is acknowledged and
\* followed by a second listen, whose result alone is dispatched; a phrase
\* is dispatched inline only if it begins with "assistant" and holds no
\* wake word, so no phrase beginning with "jarvis" is.
C10_WakeWordFirst ==
    /\ spoken # None /\ Contains("jarvis", spoken) =>
          /\ acked
          /\ source # "inline"
          /\ pc = "engaged" => cmd = None /\ fired = 0 /\ said.text = "Yes? How can I help?"
          /\ pc # "engaged" => source = "listen"
    /\ source = "inline" =>
          /\ StartsWith(spoken, "assistant")
          /\ ~StartsWith(spoken, "jarvis")
          /\ \A i \in 1..Len(WAKE_WORDS) : ~Contains(WAKE_WORDS[i], spoken)
          /\ ~acked
          /\ cmd = (IF Contains(" ", spoken) THEN AfterFirstSpace(spoken) ELSE None)
    /\ source = "listen" => acked /\ \E i \in 1..Len(WAKE_WORDS) : Contains(WAKE_WORDS[i], spoken)

\* "jarvis stop" was heard: it was acknowledged, and what the second listen
\* returned ("play some music") was dispatched, not the "stop" of the phrase
C10_Witness ==
    /\ spoken = "jarvis stop"
    /\ acked
    /\ source = "listen"
    /\ cmd = "play some music"
    /\ fired = 11

(***************************************************************************)
(* C6: schedule_reminder and its timer threads                             *)
(***************************************************************************)
Scheduled(i) == i <= Len(timers)

Fired(i) == i <= Len(timers) /\ timers[i].fired = 1

\* schedule_reminder returns at once: the step that starts timer thread i
\* is the caller's own step, the clock has not moved, the thread has not
\* spoken, and the caller is on its way to "Reminder set for ..."
C6_NonBlocking ==
    [][Len(timers') > Len(timers) =>
          /\ Len(timers') = Len(timers) + 1
          /\ Len(REMINDERS') = Len(timers')
          /\ timers'[Len(timers')].fired = 0
          /\ now' = now
          /\ pc' = "done"
          /\ StartsWith(said'.text, "Reminder set for ")]_vars

\* a thread speaks "Reminder: " + message of its own reminder, not before
\* fire_at, and at its first step when fire_at <= now; it speaks at most once
C6_FiresOnTime ==
    [][\A i \in 1..Len(timers) :
          /\ timers'[i].fired >= timers[i].fired
          /\ timers'[i].fired <= 1
          /\ timers'[i].fired > timers[i].fired =>
                /\ now >= REMINDERS[i].time
                /\ timers'[i].spoke = "Reminder: " \o REMINDERS[i].message
                /\ \A j \in 1..Len(timers) : j # i => timers'[j] = timers[j]
          /\ (timers[i].state = "started" /\ timers'[i].state # "started"
               /\ REMINDERS[i].time <= now) => timers'[i].fired = 1]_vars

\* a failure of tts in a timer thread ends that thread and changes nothing
\* of the foreground thread or of the other timers
C6_FailureContained ==
    [][\A i \in 1..Len(timers) :
          timers[i].state # "failed" /\ timers'[i].state = "failed" =>
              /\ UNCHANGED <<pc, fgInTts, loopVars, dispVars, said, REMINDERS, exitVars>>
              /\ \A j \in 1..Len(timers) : j # i => timers'[j] = timers[j]]_vars

\* C6: schedule_reminder returns without waiting for fire_at; as long as
\* the process keeps running every scheduled reminder is eventually spoken,
\* exactly once, by its own timer thread, never before fire_at and at once
\* when fire_at <= now; reminders fire independently of each other, and a
\* failure while speaking in a timer thread stays in that thread.
C6_ReminderFires ==
    /\ C6_NonBlocking
    /\ C6_FiresOnTime
    /\ C6_FailureContained
    /\ \A i \in 1..MaxReminders : [](Scheduled(i) => <>(exited \/ Fired(i)))

\* two reminders were scheduled, the first when 18:30 was still ahead; both
\* threads have spoken once, one of them failed while speaking, and the
\* foreground loop is listening
C6_Witness ==
    /\ Len(timers) = 2
    /\ REMINDERS[1].time > HMS(18, 29, 30)
    /\ timers[1].wakeAt = REMINDERS[1].time
    /\ timers[1].fired = 1 /\ timers[1].state = "failed"
    /\ timers[2].fired = 1 /\ timers[2].state = "done"
    /\ timers[2].wakeAt = NoTime
    /\ pc = "idle"
    /\ ~exited

(***************************************************************************)
(* C7: the ways out of main_loop                                           *)
(***************************************************************************)
\* the process ends only by sys.exit(0), after the farewell of the stop
\* branch or of the KeyboardInterrupt handler
C7_ExitsGracefully ==
    exited =>
        /\ exitCode = 0
        /\ pc = "exited"
        /\ \/ exitCause = "stop" /\ fired = 1 /\ said.text = "Goodbye! Stopping assistant."
           \/ exitCause = "interrupt" /\ said.text = "Assistant stopped by user."

\* whatever handle_command did, short of the stop branch, the loop goes
\* from its return to Idle
C7_BackToIdle ==
    [][pc = "done" /\ pc' # pc /\ exitCause' # "interrupt" => pc' = "idle" /\ ~exited']_vars

====
